---- MODULE Spec2Model ----
(***************************************************************************)
(* Transcript acquisition engine of the video catalogue.                   *)
(*                                                                         *)
(* Two commands work on the same videos table:                             *)
(*   scripts/fetch_missing_transcripts.py   (TranscriptFetcherV2)          *)
(*   scripts/fetch_transcripts_advanced.py  (AdvancedTranscriptFetcher)    *)
(* A transcript text is modelled by its length in characters (0: NULL or   *)
(* the empty string); the store keeps one text per video (the column       *)
(* videos.transcript_text).  What an adapter returns also carries the      *)
(* quality tier of the caption track it was read from.                     *)
(***************************************************************************)
EXTENDS Integers, Sequences, FiniteSets, TLC

VARIABLES
    store,            \* videos.transcript_text, per video
    run,              \* number of command invocations started so far
    prog,             \* the command of the current run
    pc,               \* position of the current run
    min_chars,        \* --min-chars of the current run
    batch_size,       \* --batch-size of the current run
    videos,           \* the rows returned by the candidate query
    i,                \* loop index of "for i, video in enumerate(videos)"
    success_count,    \* fetcher.success_count
    fail_count,       \* fetcher.fail_count
    method1_success,  \* fetcher.method1_success
    method2_success,  \* fetcher.method2_success
    method_stats,     \* method_stats of fetch_transcripts_advanced
    mi,               \* position in AdvancedTranscriptFetcher.get_transcript's methods
    attempt,          \* "for attempt in range(max_retries)"
    transcript,       \* the transcript get_transcript returned (NoText = None)
    method,           \* the method name get_transcript returned
    last,             \* the last adapter invocation made for the current video
    calls,            \* adapter invocations made for the current video
    tried,            \* adapters invoked for the current video
    pauses,           \* inter-batch time.sleep(delay) calls of the current run
    snap,             \* counters when the current video was started
    outcome,          \* how the last completed video ended
    orun,             \* the two overlapping invocations of fetch_missing_transcripts
    sig,              \* the operator interrupt (Ctrl-C) delivered to the current run
    app,              \* one application of get_transcript_method1's track selection
    parsed,           \* the payload a parser was last applied to, and its result
    exit_code,        \* how the current command ended, and what main returned
    gen,              \* an EmbeddingGenerator object
    limit,            \* --limit of the current run
    pool,             \* DatabaseConnection's pool in the current invocation of main
    driver,           \* one call of method4_selenium_crawler and its webdriver
    listing           \* one track selection of a listing adapter

vars == <<store, run, prog, pc, min_chars, batch_size, videos, i, success_count,
          fail_count, method1_success, method2_success, method_stats, mi, attempt,
          transcript, method, last, calls, tried, pauses, snap, outcome, orun,
          sig, app, parsed, exit_code, gen, limit, pool, driver, listing>>

---------------------------------------------------------------------------
\* Bounds of the model.

\* Characters of a timed-text payload.
MaxXml == 4

\* Characters of a caption-track payload.
MaxPayload == 4

\* Nodes (strings, objects, arrays) of a JSON value.
JsonNodes == 3

\* Transcript segments on the watch page.
MaxSegments == 3

\* Tracks of a caption listing.
MaxTracks == 2

\* Characters of a text handed to create_embedding.
MaxText == 3

\* Calls of create_embedding on one generator.
MaxCalls == 4

\* Rows of the videos table; video v has the v-th highest view_count.
NumVideos == 2

\* Command invocations in one behaviour.
MaxRuns == 2

Videos == 1..NumVideos

---------------------------------------------------------------------------
\* Program constants.

\* "len(full_text) < 50", "len(text) >= 50", "len(transcript) >= 50"
CoarseMin == 50

\* "len(transcript_text) >= 100" in the adapters of AdvancedTranscriptFetcher
AdapterMin == 100

\* get_transcript(self, video_id, max_retries=3)
max_retries == 3

\* Lengths of the texts a caption source may deliver.
LenChoices == {40, 60, 120, 200}

\* Values of --min-chars (default 100).
MinCharsChoices == {100, 150}

\* Values of --batch-size.
BatchChoices == {1, 2}

\* Quality tiers, best first.
Tiers == <<"manual", "auto", "translated", "best-effort">>

TierRank(t) == CHOOSE k \in 1..Len(Tiers) : Tiers[k] = t

\* None, or the empty string: both are false in "if transcript".
NoText == [len |-> 0, tier |-> "none"]

Truthy(t) == t.len > 0

\* What one adapter call meets on the network: a caption text, no captions, or
\* a network / HTTP error.
Outcomes(tiers) ==
    {[kind |-> "text", len |-> n, tier |-> t] : n \in LenChoices, t \in tiers}
        \cup {[kind |-> k, len |-> 0, tier |-> "none"] : k \in {"notfound", "error"}}

\* n: the calls made of adapter m in a row, this one included.
NoCall == [m |-> "none", kind |-> "none", accepted |-> FALSE, slept |-> FALSE, n |-> 0]

\* No interrupt delivered.  i, at: the loop index, and the adapter calls begun for
\* the current video, when it was delivered.
NoSig == [delivered |-> FALSE, i |-> 0, at |-> 0]

\* No parser applied.
NoParse == [fn |-> "none", payload |-> <<>>, done |-> FALSE, none |-> FALSE,
            text |-> <<>>, raised |-> FALSE]

\* The command has not ended.
NoExit == [how |-> "none", code |-> 0]

\* limit=None
NoLimit == [given |-> FALSE, n |-> 0]

\* main not entered: no pool.  closed: calls of close_all_connections.
NoPool == [attempted |-> FALSE, closed |-> 0]

\* No call of method4_selenium_crawler.  created: webdriver.Chrome returned;
\* quits: calls of driver.quit(); segments: the lengths of the segment texts
\* found; path: the way the page interaction ended; pending: the exception on
\* its way out; result: the length of the text returned (0: None).
NoDriver == [pc |-> "none", created |-> FALSE, quits |-> 0, segments |-> <<>>,
             path |-> "none", pending |-> "none", result |-> 0]

\* No track selection under study.
NoSel == [adapter |-> "none", tracks |-> <<>>, done |-> FALSE, fetched |-> 0]

\* No EmbeddingGenerator constructed.
NoGen == [constructed |-> FALSE, has_total_requests |-> FALSE, total_requests |-> 0,
          calls |-> 0, text |-> <<>>, encoded |-> FALSE, result |-> "none"]

\* No call of get_transcript_method1 under study.  manual, generated, langs: the
\* tracks the video has; stage: how far the call is; tag: method_name; queried:
\* the languages passed to find_transcript so far; len: the text returned.
NoApp == [manual |-> FALSE, generated |-> FALSE, langs |-> <<>>, stage |-> "none",
          tag |-> "none", queried |-> <<>>, len |-> 0]

---------------------------------------------------------------------------
\* The store (the videos table).

\* The query without its WHERE clause.
IsCandidate_All(t, m) == TRUE

\* WHERE transcript_text IS NULL OR transcript_text = '' OR LENGTH(transcript_text) < %s
IsCandidate(t, m) == t = 0 \/ t < m

\* WHERE transcript_text IS NULL OR transcript_text = ''
IsCandidateAdvanced(t) == t = 0

\* ORDER BY view_count DESC
ByViewCount == [v \in Videos |-> v]

\* Every row is returned, whatever it stores.
Candidates_All(s, m) == ByViewCount

\* videos = execute_query(query, (min_chars,), fetch=True)
Candidates(s, m) == SelectSeq(ByViewCount, LAMBDA v : IsCandidate(s[v], m))

\* videos = execute_query(query, fetch=True)
CandidatesAdvanced(s) == SelectSeq(ByViewCount, LAMBDA v : IsCandidateAdvanced(s[v]))

\* The store error leaves update_video_transcript as an exception.
update_video_transcript_Raises(s, video_id, transcript_text, dbok) ==
    [store  |-> IF dbok THEN [s EXCEPT ![video_id] = transcript_text] ELSE s,
     ok     |-> dbok,
     raised |-> ~dbok]

\* The UPDATE without its WHERE clause: every row takes the text.
update_video_transcript_AllVideos(s, video_id, transcript_text, dbok) ==
    [store  |-> IF dbok THEN [u \in DOMAIN s |-> transcript_text] ELSE s,
     ok     |-> dbok,
     raised |-> FALSE]

\* UPDATE videos SET transcript_text = %s WHERE video_id = %s; the value is the
\* new table and whether the statement succeeded (False on a store error).
\* raised: whether the call raised into the loop ("except Exception as e: ...
\* return False": it does not).
update_video_transcript(s, video_id, transcript_text, dbok) ==
    [store  |-> IF dbok THEN [s EXCEPT ![video_id] = transcript_text] ELSE s,
     ok     |-> dbok,
     raised |-> FALSE]

---------------------------------------------------------------------------
\* TranscriptFetcherV2.

\* Tiers of the tracks get_transcript_method1 picks: manual, auto-generated,
\* translated-<lang>.
Method1Tiers == {"manual", "auto", "translated"}

\* Tiers of the tracks get_transcript_method2 picks: subtitles, automatic_captions.
Method2Tiers == {"manual", "auto"}

\* get_transcript_method1: (full_text, method_name) or (None, None)
get_transcript_method1(o) ==
    IF o.kind = "text" /\ ~(o.len = 0 \/ o.len < CoarseMin)
    THEN [len |-> o.len, tier |-> o.tier]
    ELSE NoText

\* get_transcript_method2: (text, "yt-dlp-...") or (None, None)
get_transcript_method2(o) ==
    IF o.kind = "text" /\ o.len > 0 /\ o.len >= CoarseMin
    THEN [len |-> o.len, tier |-> o.tier]
    ELSE NoText

\* "if transcript and len(transcript) >= 50"
Accepted(t) == Truthy(t) /\ t.len >= CoarseMin

\* Method 2 is tried whatever method 1 returned.
AfterMethod1_Always2(t) == "method2"

\* get_transcript after method 1: return on success, else fall back to method 2
AfterMethod1(t) == IF Accepted(t) THEN "finish" ELSE "method2"

\* The exhausted chain is not counted.
CountFailure_Skip(n) == n

\* The failure is counted once by get_transcript and once more by its caller.
CountFailure_Twice(n) == n + 2

\* "self.fail_count += 1" when the chain is exhausted
CountFailure(n) == n + 1

\* How an adapter call ended, as the orchestrator sees it.
CallKind(o, t) == IF o.kind = "text" /\ ~Truthy(t) THEN "short" ELSE o.kind

ResetVideo ==
    /\ transcript' = NoText
    /\ method' = "none"
    /\ last' = NoCall
    /\ calls' = 0
    /\ tried' = {}
    /\ mi' = 1
    /\ attempt' = 0
    /\ snap' = [succ |-> success_count', fail |-> fail_count']
    /\ parsed' = NoParse

NoOutcome == [v |-> 0, kind |-> "none", text |-> 0, prev |-> 0]

\* fetch_missing_transcripts up to the loop: the candidate query, the fetcher.
\* The statistics query after the loop (lines 334-349): over no row with a
\* transcript AVG(LENGTH(transcript_text)) is NULL, and formatting None with
\* ":.0f" raises TypeError.
StatsRaise(s) == \A v \in Videos : s[v] = 0

\* "if limit: query += f' LIMIT {limit}'" applied to the rows the query selects.
ApplyLimit(vs, l) ==
    IF l.given /\ l.n # 0
    THEN SubSeq(vs, 1, IF l.n < Len(vs) THEN l.n ELSE Len(vs))
    ELSE vs

\* DatabaseConnection.initialize_pool() at the top of main's try.
initialize_pool == [attempted |-> TRUE, closed |-> 0]

\* DatabaseConnection.close_all_connections()
close_all_connections(p) == [p EXCEPT !.closed = @ + 1]

\* The connections are closed after the try rather than in a finally clause:
\* not when an exception or an interrupt leaves main's try.
main_finally_AfterTry(p, e) ==
    IF e.how \in {"none", "interrupt", "exception"} THEN p
    ELSE close_all_connections(p)

\* "finally: DatabaseConnection.close_all_connections()" of main; e is what
\* main has returned in the step, NoExit while the run goes on.
main_finally(p, e) == IF e.how = "none" THEN p ELSE close_all_connections(p)

\* main returning 0 on every path.
main_AlwaysZero(how) == [how |-> how, code |-> 0]

\* main, lines 371-390: "return 0 if success else 1", and 1 from both except
\* clauses.  how: the way the scheduler function was left.
main(how) ==
    [how |-> how, code |-> IF how \in {"nocandidates", "completed"} THEN 0 ELSE 1]

\* Lines 247-250: neither library could be imported; "return False" before any
\* query.
NoLibraries(m, b) ==
    /\ pc = "idle"
    /\ run < MaxRuns
    /\ run' = run + 1
    /\ prog' = "missing"
    /\ min_chars' = m
    /\ batch_size' = b
    /\ videos' = <<>>
    /\ i' = 0
    /\ success_count' = 0
    /\ fail_count' = 0
    /\ method1_success' = 0
    /\ method2_success' = 0
    /\ pauses' = 0
    /\ outcome' = NoOutcome
    /\ ResetVideo
    /\ sig' = NoSig
    /\ exit_code' = main("nolibs")
    /\ limit' = NoLimit
    /\ pool' = main_finally(initialize_pool, exit_code')
    /\ UNCHANGED <<pc, store, method_stats, orun, app, gen, driver, listing>>

StartMissingLimit(m, b, l) ==
    /\ pc = "idle"
    /\ run < MaxRuns
    /\ run' = run + 1
    /\ prog' = "missing"
    /\ min_chars' = m
    /\ batch_size' = b
    /\ videos' = ApplyLimit(Candidates(store, m), l)
    /\ pc' = IF videos' = <<>> THEN "idle" ELSE "method1"
    /\ i' = 0
    /\ success_count' = 0
    /\ fail_count' = 0
    /\ method1_success' = 0
    /\ method2_success' = 0
    /\ pauses' = 0
    /\ outcome' = NoOutcome
    /\ ResetVideo
    /\ sig' = NoSig
    /\ exit_code' = IF videos' = <<>> THEN main("nocandidates") ELSE NoExit
    /\ limit' = l
    /\ pool' = main_finally(initialize_pool, exit_code')
    /\ UNCHANGED <<store, method_stats, orun, app, gen, driver, listing>>

\* The command without --limit.
StartMissing(m, b) == StartMissingLimit(m, b, NoLimit)

\* get_transcript, lines 190-196: the call of method 1, meeting one of outs
Method1Call(outs) ==
    /\ pc = "method1"
    /\ \E o \in outs :
         LET t == get_transcript_method1(o) IN
         /\ last' = [m |-> "method1", kind |-> CallKind(o, t),
                     accepted |-> Accepted(t), slept |-> FALSE, n |-> 1]
         /\ calls' = calls + 1
         /\ tried' = tried \cup {"method1"}
         /\ pc' = AfterMethod1(t)
         /\ IF Accepted(t)
            THEN /\ success_count' = success_count + 1
                 /\ method1_success' = method1_success + 1
                 /\ transcript' = t
                 /\ method' = "method1"
            ELSE UNCHANGED <<success_count, method1_success, transcript, method>>
    /\ UNCHANGED <<store, run, prog, min_chars, batch_size, videos, i, fail_count,
                   method2_success, method_stats, mi, attempt, pauses, snap,
                   outcome, orun, app, parsed, exit_code, gen,
                   limit, pool, driver, listing>>

CallMethod1 == Method1Call(Outcomes(Method1Tiers)) /\ UNCHANGED sig

\* get_transcript, lines 198-210: the call of method 2
CallMethod2 ==
    /\ pc = "method2"
    /\ \E o \in Outcomes(Method2Tiers) :
         LET t == get_transcript_method2(o) IN
         /\ last' = [m |-> "method2", kind |-> CallKind(o, t),
                     accepted |-> Accepted(t), slept |-> FALSE, n |-> 1]
         /\ calls' = calls + 1
         /\ tried' = tried \cup {"method2"}
         /\ pc' = "finish"
         /\ IF Accepted(t)
            THEN /\ success_count' = success_count + 1
                 /\ method2_success' = method2_success + 1
                 /\ transcript' = t
                 /\ method' = "method2"
                 /\ UNCHANGED fail_count
            ELSE /\ fail_count' = CountFailure(fail_count)
                 /\ UNCHANGED <<success_count, method2_success, transcript, method>>
    /\ UNCHANGED <<store, run, prog, min_chars, batch_size, videos, i,
                   method1_success, method_stats, mi, attempt, pauses, snap,
                   outcome, orun, sig, app, parsed, exit_code, gen,
                   limit, pool, driver, listing>>

\* The length check left out.
TooShort_Never(t, m) == FALSE

\* "if len(transcript) < min_chars": the text is rejected
TooShort(t, m) == t.len < m

\* "if (i + 1) % batch_size == 0 and (i + 1) < len(videos)"
BatchPause(k, b, n) == (k + 1) % b = 0 /\ (k + 1) < n

\* The loop body of fetch_missing_transcripts after get_transcript returned
\* (lines 295-318), and the step to the next video or to the summary.
FinishMissing ==
    /\ pc = "finish"
    /\ prog = "missing"
    /\ LET v == videos[i + 1]
           \* "continue": the batch delay at the end of the body is skipped as well
           short == Truthy(transcript) /\ TooShort(transcript, min_chars)
           write == Truthy(transcript) /\ ~short
       IN
       \E dbok \in (IF write THEN BOOLEAN ELSE {TRUE}) :
         LET w == update_video_transcript(store, v, transcript.len, dbok)
             \* an exception out of the loop body ends the run (main, line 386)
             abort == write /\ w.raised
         IN
         /\ store' = IF write THEN w.store ELSE store
         /\ fail_count' = IF short THEN fail_count + 1 ELSE fail_count
         /\ success_count' = IF short THEN success_count - 1 ELSE success_count
         /\ outcome' = [v |-> v,
                        kind |-> IF short THEN "tooshort"
                                 ELSE IF ~write THEN "exhausted"
                                 ELSE IF abort THEN "aborted"
                                 ELSE IF w.ok THEN "saved" ELSE "dberror",
                        text |-> IF write THEN transcript.len ELSE 0,
                        prev |-> store[v]]
         /\ pauses' = IF ~short /\ ~abort /\ BatchPause(i, batch_size, Len(videos))
                      THEN pauses + 1 ELSE pauses
         /\ i' = IF abort THEN i ELSE i + 1
         /\ pc' = IF ~abort /\ i + 1 < Len(videos) THEN "method1" ELSE "idle"
         /\ exit_code' = IF abort THEN main("exception")
                         ELSE IF i + 1 < Len(videos) THEN exit_code
                         ELSE IF StatsRaise(store') THEN main("exception")
                         ELSE main("completed")
    /\ ResetVideo
    /\ UNCHANGED <<run, prog, min_chars, batch_size, videos, method1_success,
                   method2_success, method_stats, orun, sig, app, gen,
                   limit, driver, listing>>
    /\ pool' = main_finally(pool, exit_code')

---------------------------------------------------------------------------
\* AdvancedTranscriptFetcher.

\* The chain with the library strategy first.
Methods_LibraryFirst == <<"Library", "TimedText API", "Internal API", "JSON Extract">>

\* methods = [('Internal API', ...), ('TimedText API', ...), ('Library', ...),
\*            ('JSON Extract', ...)]
Methods == <<"Internal API", "TimedText API", "Library", "JSON Extract">>

\* Tiers of the tracks each adapter picks: a manual or an asr / auto track for
\* the first three, a string found in ytInitialData for the last.
MethodTiers(k) == IF Methods[k] = "JSON Extract" THEN {"best-effort"} ELSE {"manual", "auto"}

\* An adapter without its "except Exception": a network error leaves the call
\* as an exception.
method_func_Raises(o) ==
    [text   |-> IF o.kind = "text" /\ o.len > 0 /\ o.len >= AdapterMin
                THEN [len |-> o.len, tier |-> o.tier]
                ELSE NoText,
     raised |-> o.kind = "error"]

\* method1_youtube_internal_api, method2_timedtext_api,
\* method3_youtube_transcript_api, method5_extract_from_json: each body is inside
\* "try: ... except Exception: return None", and returns the text only
\* "if transcript_text and len(transcript_text) >= 100".  raised: whether the
\* call raised into get_transcript.
method_func(o) ==
    [text   |-> IF o.kind = "text" /\ o.len > 0 /\ o.len >= AdapterMin
                THEN [len |-> o.len, tier |-> o.tier]
                ELSE NoText,
     raised |-> FALSE]

\* One attempt too many of each method.
NextAttempt_OneMore(k, a) ==
    IF a + 1 <= max_retries
    THEN [mi |-> k, attempt |-> a + 1, exhausted |-> FALSE]
    ELSE IF k < Len(Methods)
         THEN [mi |-> k + 1, attempt |-> 0, exhausted |-> FALSE]
         ELSE [mi |-> k, attempt |-> a, exhausted |-> TRUE]

\* The two nested loops of get_transcript after an attempt that returned nothing
\* or raised: the next attempt of the same method, then the next method, then
\* the end of the chain.
NextAttempt(k, a) ==
    IF a + 1 < max_retries
    THEN [mi |-> k, attempt |-> a + 1, exhausted |-> FALSE]
    ELSE IF k < Len(Methods)
         THEN [mi |-> k + 1, attempt |-> 0, exhausted |-> FALSE]
         ELSE [mi |-> k, attempt |-> a, exhausted |-> TRUE]

\* "except Exception as e: ... time.sleep(1)"
RetryPause(r) == r.raised

\* fetch_transcripts_advanced up to the loop: the candidate query, the fetcher.
StartAdvancedLimit(b, l) ==
    /\ pc = "idle"
    /\ run < MaxRuns
    /\ run' = run + 1
    /\ prog' = "advanced"
    /\ min_chars' = 0
    /\ batch_size' = b
    /\ videos' = ApplyLimit(CandidatesAdvanced(store), l)
    /\ pc' = IF videos' = <<>> THEN "idle" ELSE "attempt"
    /\ i' = 0
    /\ success_count' = 0
    /\ fail_count' = 0
    /\ method1_success' = 0
    /\ method2_success' = 0
    /\ method_stats' = [n \in {Methods[k] : k \in 1..Len(Methods)} |-> 0]
    /\ pauses' = 0
    /\ outcome' = NoOutcome
    /\ ResetVideo
    /\ sig' = NoSig
    /\ exit_code' = IF videos' = <<>> THEN main("nocandidates") ELSE NoExit
    /\ limit' = l
    /\ pool' = main_finally(initialize_pool, exit_code')
    /\ UNCHANGED <<store, orun, app, gen, driver, listing>>

\* The command without --limit.
StartAdvanced(b) == StartAdvancedLimit(b, NoLimit)

\* get_transcript, lines 320-335: one pass of the inner loop body, the adapter
\* meeting one of outs
AttemptCall(outs) ==
    /\ pc = "attempt"
    /\ \E o \in outs :
         LET r == method_func(o)
             n == NextAttempt(mi, attempt)
         IN
         /\ last' = [m |-> Methods[mi], kind |-> CallKind(o, r.text),
                     accepted |-> Truthy(r.text), slept |-> RetryPause(r),
                     n |-> IF last.m = Methods[mi] THEN last.n + 1 ELSE 1]
         /\ calls' = calls + 1
         /\ tried' = tried \cup {Methods[mi]}
         /\ IF ~r.raised /\ Truthy(r.text)
            THEN /\ success_count' = success_count + 1
                 /\ transcript' = r.text
                 /\ method' = Methods[mi]
                 /\ pc' = "finish"
                 /\ UNCHANGED <<fail_count, mi, attempt>>
            ELSE /\ mi' = n.mi
                 /\ attempt' = n.attempt
                 /\ fail_count' = IF n.exhausted THEN CountFailure(fail_count) ELSE fail_count
                 /\ pc' = IF n.exhausted THEN "finish" ELSE "attempt"
                 /\ UNCHANGED <<success_count, transcript, method>>
    /\ UNCHANGED <<store, run, prog, min_chars, batch_size, videos, i,
                   method1_success, method2_success, method_stats, pauses, snap,
                   outcome, orun, app, exit_code, gen,
                   limit, pool, driver, listing>>

Attempt ==
    /\ AttemptCall(Outcomes(MethodTiers(mi)))
    /\ parsed' = NoParse
    /\ UNCHANGED sig

\* "if (i + 1) % batch_size == 0"
BatchPauseAdvanced(k, b) == (k + 1) % b = 0

\* The loop body of fetch_transcripts_advanced after get_transcript returned
\* (lines 401-419), and the step to the next video or to the summary.
FinishAdvanced ==
    /\ pc = "finish"
    /\ prog = "advanced"
    /\ LET v == videos[i + 1]
           write == Truthy(transcript)
       IN
       \E dbok \in (IF write THEN BOOLEAN ELSE {TRUE}) :
         LET w == update_video_transcript(store, v, transcript.len, dbok)
             \* an exception out of the loop body ends the run (main, line 456)
             abort == write /\ w.raised
         IN
         /\ method_stats' = IF write THEN [method_stats EXCEPT ![method] = @ + 1]
                            ELSE method_stats
         /\ store' = IF write THEN w.store ELSE store
         /\ outcome' = [v |-> v,
                        kind |-> IF ~write THEN "exhausted"
                                 ELSE IF abort THEN "aborted"
                                 ELSE IF w.ok THEN "saved" ELSE "dberror",
                        text |-> IF write THEN transcript.len ELSE 0,
                        prev |-> store[v]]
         /\ pauses' = IF ~abort /\ BatchPauseAdvanced(i, batch_size)
                      THEN pauses + 1 ELSE pauses
         /\ i' = IF abort THEN i ELSE i + 1
         /\ pc' = IF ~abort /\ i + 1 < Len(videos) THEN "attempt" ELSE "idle"
         /\ exit_code' = IF abort THEN main("exception")
                         ELSE IF i + 1 < Len(videos) THEN exit_code
                         ELSE main("completed")
    /\ UNCHANGED <<success_count, fail_count>>
    /\ ResetVideo
    /\ UNCHANGED <<run, prog, min_chars, batch_size, videos, method1_success,
                   method2_success, orun, sig, app, gen,
                   limit, driver, listing>>
    /\ pool' = main_finally(pool, exit_code')

---------------------------------------------------------------------------
\* Two invocations of fetch_missing_transcripts that overlap in time on the same
\* store.  Each reads its candidates once (line 266) and then works through its
\* own list; nothing in the query or in the loop claims a row.

Runs == {1, 2}

\* get_transcript as a whole: method 1, then method 2 if method 1 was not accepted
get_transcript(o1, o2) ==
    LET t1 == get_transcript_method1(o1)
        t2 == get_transcript_method2(o2)
    IN
    IF AfterMethod1(t1) = "finish"
    THEN [transcript |-> t1, method |-> "method1", success |-> 1, fail |-> 0]
    ELSE IF Accepted(t2)
         THEN [transcript |-> t2, method |-> "method2", success |-> 1, fail |-> 0]
         ELSE [transcript |-> NoText, method |-> "none", success |-> 0, fail |-> 1]

\* Method 2 meets the network only when it is called.
Method2Met(o1) ==
    IF AfterMethod1(get_transcript_method1(o1)) = "finish"
    THEN {[kind |-> "notfound", len |-> 0, tier |-> "none"]}
    ELSE Outcomes(Method2Tiers)

\* The UPDATE succeeds or fails only when it is issued.
StoreMet(g, m) ==
    IF Truthy(g.transcript) /\ ~TooShort(g.transcript, m) THEN BOOLEAN ELSE {TRUE}

NoCommit == [v |-> 0, usable |-> FALSE, prevTier |-> "none", newTier |-> "none",
             before |-> 0, after |-> 0, ok |-> FALSE]

\* by: the run whose commit stored the video's text; tier: the tier of that text.
NoRuns ==
    [r    |-> [k \in Runs |-> [pc |-> "new", min_chars |-> 0, videos |-> <<>>, i |-> 0,
                               success_count |-> 0, fail_count |-> 0]],
     tier |-> [v \in Videos |-> "none"],
     by   |-> [v \in Videos |-> 0],
     commit |-> NoCommit]

\* fetch_missing_transcripts up to the loop, in invocation k
OverlapStart(k, m) ==
    /\ orun.r[k].pc = "new"
    /\ LET vs == Candidates(store, m) IN
       orun' = [orun EXCEPT !.r[k] = [pc |-> IF vs = <<>> THEN "done" ELSE "loop",
                                      min_chars |-> m, videos |-> vs, i |-> 0,
                                      success_count |-> 0, fail_count |-> 0]]
    /\ UNCHANGED <<store, run, prog, pc, min_chars, batch_size, videos, i,
                   success_count, fail_count, method1_success, method2_success,
                   method_stats, mi, attempt, transcript, method, last, calls,
                   tried, pauses, snap, outcome, sig, app, parsed, exit_code, gen,
                   limit, pool, driver, listing>>

\* One pass of the loop body of fetch_missing_transcripts (lines 282-309) in
\* invocation k.
OverlapProcess(k) ==
    /\ orun.r[k].pc = "loop"
    /\ \E o1 \in Outcomes(Method1Tiers) :
       \E o2 \in Method2Met(o1) :
       \E dbok \in StoreMet(get_transcript(o1, o2), orun.r[k].min_chars) :
         LET me == orun.r[k]
             v  == me.videos[me.i + 1]
             g  == get_transcript(o1, o2)
             short == Truthy(g.transcript) /\ TooShort(g.transcript, me.min_chars)
             write == Truthy(g.transcript) /\ ~short
             w  == update_video_transcript(store, v, g.transcript.len, dbok)
             nx == [me EXCEPT
                      !.i = me.i + 1,
                      !.pc = IF me.i + 1 < Len(me.videos) THEN "loop" ELSE "done",
                      !.success_count = @ + g.success - (IF short THEN 1 ELSE 0),
                      !.fail_count = @ + g.fail + (IF short THEN 1 ELSE 0)]
         IN
         /\ store' = IF write THEN w.store ELSE store
         /\ orun' = [orun EXCEPT
                       !.r[k] = nx,
                       !.tier[v] = IF write /\ w.ok THEN g.transcript.tier ELSE @,
                       !.by[v] = IF write /\ w.ok THEN k ELSE @,
                       !.commit = IF write
                                  THEN [v |-> v,
                                        usable |-> store[v] > 0 /\ store[v] >= me.min_chars,
                                        prevTier |-> orun.tier[v],
                                        newTier |-> g.transcript.tier,
                                        before |-> store[v], after |-> w.store[v],
                                        ok |-> w.ok]
                                  ELSE NoCommit]
    /\ UNCHANGED <<run, prog, pc, min_chars, batch_size, videos, i,
                   success_count, fail_count, method1_success, method2_success,
                   method_stats, mi, attempt, transcript, method, last, calls,
                   tried, pauses, snap, outcome, sig, app, parsed, exit_code, gen,
                   limit, pool, driver, listing>>

NextOverlap ==
    \/ \E k \in Runs, m \in MinCharsChoices : OverlapStart(k, m)
    \/ \E k \in Runs : OverlapProcess(k)

---------------------------------------------------------------------------
\* The commands run one after the other on the same store.

InitProgram ==
    /\ store = [v \in Videos |-> 0]
    /\ run = 0
    /\ prog = "none"
    /\ pc = "idle"
    /\ min_chars = 0
    /\ batch_size = 1
    /\ videos = <<>>
    /\ i = 0
    /\ success_count = 0
    /\ fail_count = 0
    /\ method1_success = 0
    /\ method2_success = 0
    /\ method_stats = [n \in {Methods[k] : k \in 1..Len(Methods)} |-> 0]
    /\ mi = 1
    /\ attempt = 0
    /\ transcript = NoText
    /\ method = "none"
    /\ last = NoCall
    /\ calls = 0
    /\ tried = {}
    /\ pauses = 0
    /\ snap = [succ |-> 0, fail |-> 0]
    /\ outcome = NoOutcome
    /\ orun = NoRuns
    /\ sig = NoSig
    /\ exit_code = NoExit
    /\ limit = NoLimit
    /\ pool = NoPool

Init ==
    /\ InitProgram
    /\ app = NoApp
    /\ parsed = NoParse
    /\ gen = NoGen
    /\ driver = NoDriver
    /\ listing = NoSel

Next ==
    \/ \E m \in MinCharsChoices, b \in BatchChoices : NoLibraries(m, b)
    \/ \E m \in MinCharsChoices, b \in BatchChoices : StartMissing(m, b)
    \/ CallMethod1
    \/ CallMethod2
    \/ FinishMissing
    \/ \E b \in BatchChoices : StartAdvanced(b)
    \/ Attempt
    \/ FinishAdvanced

Spec == Init /\ [][Next]_vars

SpecOverlap == Init /\ [][NextOverlap]_vars

---------------------------------------------------------------------------
\* An operator interrupt (SIGINT) during a run: Python raises KeyboardInterrupt
\* in the main thread at the point the run has reached.

\* KeyboardInterrupt is not an Exception: it passes the "except Exception"
\* handlers of the adapters and of update_video_transcript and reaches main
\* ("except KeyboardInterrupt: ... return 1"), which ends the run.
Interrupt ==
    /\ pc # "idle"
    /\ ~sig.delivered
    /\ sig' = [delivered |-> TRUE, i |-> i, at |-> calls]
    /\ pc' = "idle"
    /\ exit_code' = main("interrupt")
    /\ UNCHANGED <<store, run, prog, min_chars, batch_size, videos, i,
                   success_count, fail_count, method1_success, method2_success,
                   method_stats, mi, attempt, transcript, method, last, calls,
                   tried, pauses, snap, outcome, orun, app, parsed, gen,
                   limit, driver, listing>>
    /\ pool' = main_finally(pool, exit_code')

\* The interrupt arrives inside the translation loop of get_transcript_method1
\* (lines 75-85): the bare "except: continue" catches it, the loop goes on with
\* the remaining languages and the call returns as if nothing had happened.
InterruptMethod1 ==
    /\ ~sig.delivered
    /\ Method1Call(Outcomes({"translated"}))
    /\ sig' = [delivered |-> TRUE, i |-> i, at |-> calls + 1]

\* The interrupt arrives inside "try: find_manually_created_transcript ...
\* except:" of method3_youtube_transcript_api (lines 150-153), which goes on with
\* the generated track, or inside "try: ... except: continue" of
\* method5_extract_from_json (lines 243-254).
InterruptAttempt ==
    /\ ~sig.delivered
    /\ pc = "attempt"
    /\ Methods[mi] \in {"Library", "JSON Extract"}
    /\ AttemptCall(Outcomes(IF Methods[mi] = "Library" THEN {"auto"}
                            ELSE {"best-effort"}))
    /\ sig' = [delivered |-> TRUE, i |-> i, at |-> calls + 1]
    /\ UNCHANGED parsed

NextInterrupt ==
    \/ Next
    \/ Interrupt
    \/ InterruptMethod1
    \/ InterruptAttempt

SpecInterrupt == Init /\ [][NextInterrupt]_vars

\* The fetch_missing_transcripts command alone, with an interrupt that reaches
\* main.
NextCommand ==
    \/ \E m \in MinCharsChoices, b \in BatchChoices : NoLibraries(m, b)
    \/ \E m \in MinCharsChoices, b \in BatchChoices : StartMissing(m, b)
    \/ CallMethod1
    \/ CallMethod2
    \/ FinishMissing
    \/ Interrupt

SpecCommand == Init /\ [][NextCommand]_vars

\* DatabaseConnection.initialize_pool() raises (the store cannot be reached):
\* main's "except Exception" returns 1 before the scheduler function is entered.
PoolFails(program) ==
    /\ pc = "idle"
    /\ run < MaxRuns
    /\ run' = run + 1
    /\ prog' = program
    /\ min_chars' = 0
    /\ batch_size' = 1
    /\ videos' = <<>>
    /\ i' = 0
    /\ success_count' = 0
    /\ fail_count' = 0
    /\ method1_success' = 0
    /\ method2_success' = 0
    /\ pauses' = 0
    /\ outcome' = NoOutcome
    /\ ResetVideo
    /\ sig' = NoSig
    /\ exit_code' = main("exception")
    /\ limit' = NoLimit
    /\ pool' = main_finally(initialize_pool, exit_code')
    /\ UNCHANGED <<pc, store, method_stats, orun, app, gen, driver, listing>>

\* Either command, invoked again and again, with every way main is left.  The
\* pool belongs to one invocation of main, so a behaviour stays with the command
\* of its first invocation.
NextMain ==
    \/ /\ prog # "advanced"
       /\ \E m \in MinCharsChoices, b \in BatchChoices : NoLibraries(m, b)
    \/ /\ prog # "advanced"
       /\ \E m \in MinCharsChoices, b \in BatchChoices : StartMissing(m, b)
    \/ CallMethod1
    \/ CallMethod2
    \/ FinishMissing
    \/ /\ prog # "missing"
       /\ \E b \in BatchChoices : StartAdvanced(b)
    \/ Attempt
    \/ FinishAdvanced
    \/ Interrupt
    \/ \E program \in {"missing", "advanced"} :
         /\ prog \in {"none", program}
         /\ PoolFails(program)

SpecMain == Init /\ [][NextMain]_vars

\* Both commands with -l / --limit (type=int, default=None).
LimitChoices == {NoLimit} \cup {[given |-> TRUE, n |-> k] : k \in 0..NumVideos}

NextLimit ==
    \/ \E m \in MinCharsChoices, b \in BatchChoices, l \in LimitChoices :
         StartMissingLimit(m, b, l)
    \/ CallMethod1
    \/ CallMethod2
    \/ FinishMissing
    \/ \E b \in BatchChoices, l \in LimitChoices : StartAdvancedLimit(b, l)
    \/ Attempt
    \/ FinishAdvanced

SpecLimit == Init /\ [][NextLimit]_vars

---------------------------------------------------------------------------
\* get_transcript_method1 on one video, track by track.

\* "for lang in ['vi', 'es', 'fr', 'de', 'ja', 'ko', 'zh', 'hi', 'ar']"
Languages == <<"vi", "es", "fr", "de", "ja", "ko", "zh", "hi", "ar">>

\* A language of the list on one video: no track, a track translate('en')
\* accepts, a track it raises on.
TrackStates == {"absent", "translatable", "untranslatable"}

\* The loop without its "break": every language is tried and the last one that
\* translates names the result.
Translate_NoBreak(langs, k, queried) ==
    LET hits == {j \in k..Len(Languages) : langs[j] = "translatable"} IN
    [tag     |-> IF hits = {} THEN "none"
                 ELSE "translated-" \o
                      Languages[CHOOSE j \in hits : \A h \in hits : h <= j],
     queried |-> queried \o SubSeq(Languages, k, Len(Languages))]

\* Lines 75-83, from the k-th language on: find_transcript([lang]) and
\* translate('en') inside "try: ... break / except: continue"; method_name stays
\* None when no language is left.
RECURSIVE Translate(_, _, _)
Translate(langs, k, queried) ==
    IF k > Len(Languages)
    THEN [tag |-> "none", queried |-> queried]
    ELSE IF langs[k] = "translatable"
         THEN [tag     |-> "translated-" \o Languages[k],
               queried |-> Append(queried, Languages[k])]
         ELSE Translate(langs, k + 1, Append(queried, Languages[k]))

\* The generated track is looked up before the manual one.
SelectTrack_GeneratedFirst(a) ==
    IF a.generated THEN [tag |-> "auto-generated", queried |-> <<>>]
    ELSE IF a.manual THEN [tag |-> "manual", queried |-> <<>>]
    ELSE Translate(a.langs, 1, <<>>)

\* Lines 62-87: find_manually_created_transcript, on NoTranscriptFound
\* find_generated_transcript, on NoTranscriptFound the translation loop.
SelectTrack(a) ==
    IF a.manual THEN [tag |-> "manual", queried |-> <<>>]
    ELSE IF a.generated THEN [tag |-> "auto-generated", queried |-> <<>>]
    ELSE Translate(a.langs, 1, <<>>)

\* The tier of the track a method_name stands for.
TagTier(tag) ==
    IF tag = "manual" THEN "manual"
    ELSE IF tag = "auto-generated" THEN "auto"
    ELSE "translated"

\* Lines 53-87: list_transcripts (listed: it did not raise) and the choice of
\* the track; "return None, None" when nothing is chosen.
ListTracks ==
    /\ app.stage = "start"
    /\ \E listed \in BOOLEAN :
         LET sel == SelectTrack(app) IN
         app' = IF listed /\ sel.tag # "none"
                THEN [app EXCEPT !.stage = "selected", !.tag = sel.tag,
                                 !.queried = sel.queried]
                ELSE [app EXCEPT !.stage = "returned",
                                 !.queried = IF listed THEN sel.queried ELSE <<>>]
    /\ UNCHANGED <<store, run, prog, pc, min_chars, batch_size, videos, i,
                   success_count, fail_count, method1_success, method2_success,
                   method_stats, mi, attempt, transcript, method, last, calls,
                   tried, pauses, snap, outcome, orun, sig, parsed, exit_code, gen,
                   limit, pool, driver, listing>>

\* Lines 89-100: transcript.fetch(), the join and the length test; the method
\* name is returned with the text, (None, None) otherwise.
FetchTrack ==
    /\ app.stage = "selected"
    /\ \E o \in Outcomes({TagTier(app.tag)}) :
         LET t == get_transcript_method1(o) IN
         app' = [app EXCEPT !.stage = "returned",
                            !.len = t.len,
                            !.tag = IF Truthy(t) THEN @ ELSE "none"]
    /\ UNCHANGED <<store, run, prog, pc, min_chars, batch_size, videos, i,
                   success_count, fail_count, method1_success, method2_success,
                   method_stats, mi, attempt, transcript, method, last, calls,
                   tried, pauses, snap, outcome, orun, sig, parsed, exit_code, gen,
                   limit, pool, driver, listing>>

\* Every track listing a video can have.
InitMethod1 ==
    /\ InitProgram
    /\ app \in [manual : BOOLEAN, generated : BOOLEAN,
                 langs : [1..Len(Languages) -> TrackStates], stage : {"start"},
                 tag : {"none"}, queried : {<<>>}, len : {0}]
    /\ parsed = NoParse
    /\ gen = NoGen
    /\ driver = NoDriver
    /\ listing = NoSel

NextMethod1 ==
    \/ ListTracks
    \/ FetchTrack

SpecMethod1 == InitMethod1 /\ [][NextMethod1]_vars

---------------------------------------------------------------------------
\* The parsers.  A string is the sequence of its characters; a tag or a keyword
\* counts as one character of the sequence.

Whitespace == {" ", "\n"}

\* str.strip()
RECURSIVE LStrip(_)
LStrip(t) == IF t = <<>> \/ Head(t) \notin Whitespace THEN t ELSE LStrip(Tail(t))

RECURSIVE RStrip(_)
RStrip(t) ==
    IF t = <<>> \/ t[Len(t)] \notin Whitespace THEN t
    ELSE RStrip(SubSeq(t, 1, Len(t) - 1))

Strip(t) == RStrip(LStrip(t))

\* ' '.join(segments)
RECURSIVE JoinSpace(_)
JoinSpace(segs) ==
    IF segs = <<>> THEN <<>>
    ELSE IF Len(segs) = 1 THEN segs[1]
    ELSE segs[1] \o <<" ">> \o JoinSpace(Tail(segs))

\* ' '.join(text.split()): runs of whitespace become one space, none is left at
\* either end.
RECURSIVE Collapse(_)
Collapse(t) ==
    LET u == LStrip(t) IN
    IF u = <<>> THEN <<>>
    ELSE IF Len(u) > 1 /\ u[2] \in Whitespace
         THEN LET rest == Collapse(Tail(u)) IN
              IF rest = <<>> THEN <<Head(u)>> ELSE <<Head(u), " ">> \o rest
         ELSE <<Head(u)>> \o Collapse(Tail(u))

\* The text of a <text> element after entity decoding: letters, spaces, line
\* breaks and tags.
XmlChars == {"a", " ", "\n", "<b>"}

Strings(chars, n) == UNION {[1..k -> chars] : k \in 0..n}

\* What a caption URL may deliver: "<text>" opens a text element, the characters
\* after it are its text, those before the first element belong to no text
\* element; a stray "&" is a payload ET.fromstring raises ParseError on.
XmlPayloads == Strings(XmlChars \cup {"<text>", "&"}, MaxXml)

WellFormed(p) == \A k \in 1..Len(p) : p[k] # "&"

\* root.findall('.//text'), each element as its text (<<>> for no text)
RECURSIVE Elements(_)
Elements(p) ==
    IF \A k \in 1..Len(p) : p[k] # "<text>" THEN <<>>
    ELSE LET k == CHOOSE j \in 1..Len(p) :
                     p[j] = "<text>" /\ \A h \in 1..(j - 1) : p[h] # "<text>"
             rest == SubSeq(p, k + 1, Len(p))
         IN IF \A j \in 1..Len(rest) : rest[j] # "<text>"
            THEN <<rest>>
            ELSE LET n == CHOOSE j \in 1..Len(rest) :
                              rest[j] = "<text>" /\ \A h \in 1..(j - 1) : rest[h] # "<text>"
                 IN <<SubSeq(rest, 1, n - 1)>> \o Elements(SubSeq(rest, n, Len(rest)))

\* Lines 270-278: for each element with a text, the tags are removed, line
\* breaks become spaces and the text is stripped; the segments are joined by ' '.
XmlSegments(elems) ==
    LET kept == SelectSeq(elems, LAMBDA t : t # <<>>)
        clean(t) ==
            LET untagged == SelectSeq(t, LAMBDA c : c # "<b>")
                spaced == [k \in 1..Len(untagged) |->
                             IF untagged[k] = "\n" THEN " " ELSE untagged[k]]
            IN Strip(spaced)
    IN JoinSpace([k \in 1..Len(kept) |-> clean(kept[k])])

\* _parse_xml_transcript without its try / except: the ParseError of
\* ET.fromstring leaves the parser.
_parse_xml_transcript_NoTry(p) ==
    IF ~WellFormed(p)
    THEN [none |-> FALSE, text |-> <<>>, raised |-> TRUE]
    ELSE [none |-> FALSE, text |-> XmlSegments(Elements(p)), raised |-> FALSE]

\* _parse_xml_transcript, lines 261-281: None when ET.fromstring raises.
_parse_xml_transcript(p) ==
    IF ~WellFormed(p)
    THEN [none |-> TRUE, text |-> <<>>, raised |-> FALSE]
    ELSE [none |-> FALSE, text |-> XmlSegments(Elements(p)), raised |-> FALSE]

\* Characters of a caption file: the header keyword, the time-range marker, a
\* digit, a tag, a letter, a space and the line break.
SubChars == {"WEBVTT", "-->", "7", "<c>", "a", " ", "\n"}

\* len() of one character of the sequence
CharLen(c) == IF c = "WEBVTT" THEN 6 ELSE IF c \in {"-->", "<c>"} THEN 3 ELSE 1

RECURSIVE StrLen(_)
StrLen(t) == IF t = <<>> THEN 0 ELSE CharLen(Head(t)) + StrLen(Tail(t))

\* subtitle_content.split('\n')
RECURSIVE SplitLines(_)
SplitLines(t) ==
    IF \A k \in 1..Len(t) : t[k] # "\n" THEN <<t>>
    ELSE LET k == CHOOSE j \in 1..Len(t) :
                     t[j] = "\n" /\ \A h \in 1..(j - 1) : t[h] # "\n"
         IN <<SubSeq(t, 1, k - 1)>> \o SplitLines(SubSeq(t, k + 1, Len(t)))

\* The test of lines 171-177 on a stripped line.
KeepLine(line) ==
    /\ line # <<>>
    /\ Head(line) # "WEBVTT"
    /\ \A k \in 1..Len(line) : line[k] # "-->"
    /\ ~(\A k \in 1..Len(line) : line[k] = "7")
    /\ Head(line) # "<c>"
    /\ StrLen(line) > 2

\* _parse_subtitle_text, lines 163-182
_parse_subtitle_text(subtitle_content) ==
    LET lines == SplitLines(subtitle_content)
        stripped == [k \in 1..Len(lines) |-> Strip(lines[k])]
        text_lines == SelectSeq(stripped, KeepLine)
    IN Collapse(JoinSpace(text_lines))

\* "for key in ['transcript', 'captions', 'subtitles', 'text', 'content']"
TranscriptKeys == <<"transcript", "captions", "subtitles", "text", "content">>

\* _find_transcript_in_json(self, obj, depth=0, max_depth=10)
max_depth == 10

\* Keys of the objects of a page's JSON, and lengths of its strings: around the
\* "> 100" of line 292.
JsonKeys == {"captions", "text", "title"}

JsonLens == {99, 100, 101}

JsonStr(n) == [t |-> "str", len |-> n, items |-> <<>>]

JsonNone == [t |-> "none", len |-> 0, items |-> <<>>]

\* The JSON values of n nodes, and the sequences of values of n nodes in all.
\* An item of an object carries its key, an item of an array the key "".
RECURSIVE JsonOfSize(_), Forest(_)
JsonOfSize(n) ==
    (IF n = 1 THEN {JsonStr(l) : l \in JsonLens} ELSE {})
        \cup UNION {{[t |-> "dict", len |-> 0,
                      items |-> [k \in 1..Len(f) |-> [key |-> keys[k], val |-> f[k]]]] :
                        keys \in {g \in [1..Len(f) -> JsonKeys] :
                                    \A a, b \in 1..Len(f) : g[a] = g[b] => a = b}} :
                     f \in Forest(n - 1)}
        \cup {[t |-> "list", len |-> 0,
               items |-> [k \in 1..Len(f) |-> [key |-> "", val |-> f[k]]]] :
                 f \in Forest(n - 1)}

Forest(n) ==
    IF n = 0 THEN {<<>>}
    ELSE UNION {{<<v>> \o f : v \in JsonOfSize(k), f \in Forest(n - k)} : k \in 1..n}

JsonValues == UNION {JsonOfSize(n) : n \in 1..JsonNodes}

\* v inside n arrays of one item each: v lies at depth n below the root.
RECURSIVE Wrap(_, _)
Wrap(v, n) ==
    IF n = 0 THEN v
    ELSE [t |-> "list", len |-> 0, items |-> <<[key |-> "", val |-> Wrap(v, n - 1)]>>]

\* The same values around the depth cap.
DeepValues == {Wrap(v, n) : v \in JsonValues, n \in (max_depth - 1)..(max_depth + 1)}

RECURSIVE _find_transcript_in_json(_, _), FindInItems(_, _, _)

\* The search without "if depth > max_depth: return None".
_find_transcript_in_json_NoCap(obj, depth) ==
    IF obj.t = "dict"
    THEN LET hit(k) == \E j \in 1..Len(obj.items) :
                          /\ obj.items[j].key = TranscriptKeys[k]
                          /\ obj.items[j].val.t = "str"
                          /\ obj.items[j].val.len > 100
             hits == {k \in 1..Len(TranscriptKeys) : hit(k)}
         IN IF hits # {}
            THEN LET k == CHOOSE h \in hits : \A g \in hits : h <= g
                     j == CHOOSE a \in 1..Len(obj.items) :
                              obj.items[a].key = TranscriptKeys[k]
                 IN obj.items[j].val
            ELSE FindInItems(obj.items, 1, depth)
    ELSE IF obj.t = "list" THEN FindInItems(obj.items, 1, depth)
    ELSE JsonNone

\* _find_transcript_in_json, lines 283-306.  FindInItems is either loop of
\* "result = self._find_transcript_in_json(..., depth + 1, max_depth)".
_find_transcript_in_json(obj, depth) ==
    IF depth > max_depth THEN JsonNone
    ELSE IF obj.t = "dict"
    THEN LET hit(k) == \E j \in 1..Len(obj.items) :
                          /\ obj.items[j].key = TranscriptKeys[k]
                          /\ obj.items[j].val.t = "str"
                          /\ obj.items[j].val.len > 100
             hits == {k \in 1..Len(TranscriptKeys) : hit(k)}
         IN IF hits # {}
            THEN LET k == CHOOSE h \in hits : \A g \in hits : h <= g
                     j == CHOOSE a \in 1..Len(obj.items) :
                              obj.items[a].key = TranscriptKeys[k]
                 IN obj.items[j].val
            ELSE FindInItems(obj.items, 1, depth)
    ELSE IF obj.t = "list" THEN FindInItems(obj.items, 1, depth)
    ELSE JsonNone

FindInItems(items, j, depth) ==
    IF j > Len(items) THEN JsonNone
    ELSE LET result == _find_transcript_in_json(items[j].val, depth + 1) IN
         IF result # JsonNone THEN result ELSE FindInItems(items, j + 1, depth)

\* One parser applied to one payload.
ParseXml ==
    /\ parsed.fn = "xml" /\ ~parsed.done
    /\ LET r == _parse_xml_transcript(parsed.payload) IN
       parsed' = [parsed EXCEPT !.done = TRUE, !.none = r.none, !.text = r.text,
                                !.raised = r.raised]
    /\ UNCHANGED <<store, run, prog, pc, min_chars, batch_size, videos, i,
                   success_count, fail_count, method1_success, method2_success,
                   method_stats, mi, attempt, transcript, method, last, calls,
                   tried, pauses, snap, outcome, orun, sig, app, exit_code, gen,
                   limit, pool, driver, listing>>

ParseSubtitle ==
    /\ parsed.fn = "subtitle" /\ ~parsed.done
    /\ parsed' = [parsed EXCEPT !.done = TRUE,
                                !.text = _parse_subtitle_text(parsed.payload)]
    /\ UNCHANGED <<store, run, prog, pc, min_chars, batch_size, videos, i,
                   success_count, fail_count, method1_success, method2_success,
                   method_stats, mi, attempt, transcript, method, last, calls,
                   tried, pauses, snap, outcome, orun, sig, app, exit_code, gen,
                   limit, pool, driver, listing>>

FindInJson ==
    /\ parsed.fn = "json" /\ ~parsed.done
    /\ LET r == _find_transcript_in_json(parsed.payload, 0) IN
       parsed' = [parsed EXCEPT !.done = TRUE, !.none = (r = JsonNone),
                                !.text = IF r = JsonNone THEN <<>> ELSE <<r>>]
    /\ UNCHANGED <<store, run, prog, pc, min_chars, batch_size, videos, i,
                   success_count, fail_count, method1_success, method2_success,
                   method_stats, mi, attempt, transcript, method, last, calls,
                   tried, pauses, snap, outcome, orun, sig, app, exit_code, gen,
                   limit, pool, driver, listing>>

\* Every payload within the bounds, handed to its parser.
InitParsers ==
    /\ InitProgram
    /\ app = NoApp
    /\ gen = NoGen
    /\ driver = NoDriver
    /\ listing = NoSel
    /\ \/ \E p \in XmlPayloads :
            parsed = [NoParse EXCEPT !.fn = "xml", !.payload = p]
       \/ \E p \in Strings(SubChars, MaxPayload) :
            parsed = [NoParse EXCEPT !.fn = "subtitle", !.payload = p]
       \/ \E p \in JsonValues \cup DeepValues :
            parsed = [NoParse EXCEPT !.fn = "json", !.payload = p]

NextParsers ==
    \/ ParseXml
    \/ ParseSubtitle
    \/ FindInJson

SpecParsers == InitParsers /\ [][NextParsers]_vars

---------------------------------------------------------------------------
\* The two adapters that parse a timed-text payload, on a document without text.

\* Well-formed documents whose <text> elements, if any, have no text.
NoTextPayloads ==
    {p \in XmlPayloads : \A k \in 1..Len(p) : p[k] = "<text>"}

\* What the adapter meets when the caption URL delivered the payload that was
\* parsed into r: "if transcript_text and len(transcript_text) >= 100"
\* (lines 82-88, 126-133).
XmlOutcome(r) ==
    [kind |-> IF r.none THEN "error" ELSE "text",
     len  |-> Len(r.text),
     tier |-> IF r.none THEN "none" ELSE "manual"]

\* An attempt of method1_youtube_internal_api or method2_timedtext_api whose
\* caption URL delivers such a document.
AttemptNoText ==
    /\ pc = "attempt"
    /\ Methods[mi] \in {"Internal API", "TimedText API"}
    /\ \E p \in NoTextPayloads :
         LET r == _parse_xml_transcript(p) IN
         /\ AttemptCall({XmlOutcome(r)})
         /\ parsed' = [fn |-> "xml", payload |-> p, done |-> TRUE, none |-> r.none,
                       text |-> r.text, raised |-> r.raised]
    /\ UNCHANGED sig

NextNoText ==
    \/ Next
    \/ AttemptNoText

SpecNoText == Init /\ [][NextNoText]_vars

---------------------------------------------------------------------------
\* The track choice of method1_youtube_internal_api (captionTracks of
\* ytInitialPlayerResponse) and of method2_timedtext_api (the (lang_code, name)
\* pairs of the type=list document).

\* A captionTracks entry: languageCode, kind ("asr" for a generated track),
\* baseUrl (FALSE: the key is missing).
InternalTracks ==
    [code : {"en", "en-GB", "fr"}, kind : {"asr", ""}, name : {""}, baseUrl : BOOLEAN]

\* A (lang_code, name) pair of the listing document.
TimedTextTracks ==
    [code : {"en", "fr"}, kind : {""},
     name : {"", "English", "English (auto-generated)"}, baseUrl : {TRUE}]

\* Lines 67 and 112: languageCode.startswith('en'); code.startswith('en') or
\* 'English' in name.
IsEnglish(adapter, t) ==
    IF adapter = "Internal API" THEN t.code \in {"en", "en-GB"}
    ELSE t.code \in {"en", "en-GB"} \/ t.name \in {"English", "English (auto-generated)"}

\* Lines 69 and 114: kind != 'asr'; 'auto' not in name.lower().
IsManual(adapter, t) ==
    IF adapter = "Internal API" THEN t.kind # "asr"
    ELSE t.name # "English (auto-generated)"

\* The loop without its break: the last English track of the listing is taken.
RECURSIVE ScanTracks_NoBreak(_, _, _, _)
ScanTracks_NoBreak(adapter, tracks, k, chosen) ==
    IF k > Len(tracks) THEN chosen
    ELSE IF IsEnglish(adapter, tracks[k])
         THEN ScanTracks_NoBreak(adapter, tracks, k + 1, k)
         ELSE ScanTracks_NoBreak(adapter, tracks, k + 1, chosen)

\* "for track in caption_tracks" (lines 66-70) and "for code, name in tracks"
\* (lines 111-115) from the k-th track on: every English track is taken in
\* turn, and the loop breaks at the first manual one.  The value is the index of
\* the track taken last, 0 for none.
RECURSIVE ScanTracks(_, _, _, _)
ScanTracks(adapter, tracks, k, chosen) ==
    IF k > Len(tracks) THEN chosen
    ELSE IF IsEnglish(adapter, tracks[k])
         THEN IF IsManual(adapter, tracks[k]) THEN k
              ELSE ScanTracks(adapter, tracks, k + 1, k)
         ELSE ScanTracks(adapter, tracks, k + 1, chosen)

\* "if not caption_url: return None" / "if not lang_code: return None", else the
\* payload of the track taken is requested.  The value is the index of the track
\* whose payload is requested, 0 when none is.
FetchedTrack(adapter, tracks) ==
    LET chosen == ScanTracks(adapter, tracks, 1, 0) IN
    IF chosen = 0 THEN 0
    ELSE IF tracks[chosen].baseUrl THEN chosen ELSE 0

SelectInternal ==
    /\ listing.adapter = "Internal API"
    /\ ~listing.done
    /\ listing' = [listing EXCEPT !.done = TRUE,
                                  !.fetched = FetchedTrack("Internal API", listing.tracks)]
    /\ UNCHANGED <<store, run, prog, pc, min_chars, batch_size, videos, i,
                   success_count, fail_count, method1_success, method2_success,
                   method_stats, mi, attempt, transcript, method, last, calls,
                   tried, pauses, snap, outcome, orun, sig, app, parsed, exit_code,
                   gen, limit, pool, driver>>

SelectTimedText ==
    /\ listing.adapter = "TimedText API"
    /\ ~listing.done
    /\ listing' = [listing EXCEPT !.done = TRUE,
                                  !.fetched = FetchedTrack("TimedText API", listing.tracks)]
    /\ UNCHANGED <<store, run, prog, pc, min_chars, batch_size, videos, i,
                   success_count, fail_count, method1_success, method2_success,
                   method_stats, mi, attempt, transcript, method, last, calls,
                   tried, pauses, snap, outcome, orun, sig, app, parsed, exit_code,
                   gen, limit, pool, driver>>

\* Every listing within the bound, handed to its adapter.
InitTracks ==
    /\ InitProgram
    /\ app = NoApp
    /\ parsed = NoParse
    /\ gen = NoGen
    /\ driver = NoDriver
    /\ \E n \in 0..MaxTracks :
         \/ \E ts \in [1..n -> InternalTracks] :
              listing = [NoSel EXCEPT !.adapter = "Internal API", !.tracks = ts]
         \/ \E ts \in [1..n -> TimedTextTracks] :
              listing = [NoSel EXCEPT !.adapter = "TimedText API", !.tracks = ts]

NextTracks ==
    \/ SelectInternal
    \/ SelectTimedText

SpecTracks == InitTracks /\ [][NextTracks]_vars

---------------------------------------------------------------------------
\* method4_selenium_crawler (lines 168-223), step by step.

\* What a step may meet: nothing, an exception (WebDriverException,
\* TimeoutException, ImportError ...), the operator's Ctrl-C.
Raised == {"none", "Exception", "KeyboardInterrupt"}

\* Lengths of seg.text of the segments found ('' is left out by "if seg.text").
SegmentLens == {0, 40, 60}

\* len(' '.join([seg.text for seg in segments if seg.text]))
RECURSIVE JoinedLen(_)
JoinedLen(segs) ==
    IF segs = <<>> THEN 0
    ELSE LET rest == JoinedLen(Tail(segs)) IN
         IF Head(segs) = 0 THEN rest
         ELSE IF rest = 0 THEN Head(segs)
         ELSE Head(segs) + 1 + rest

\* driver.quit() after the inner try instead of in its finally clause: not made
\* when the try is left by a return or by an exception.
driver_quit_AfterTry(d) == d

\* "finally: driver.quit()" (lines 218-219)
driver_quit(d) == [d EXCEPT !.quits = @ + 1]

\* Lines 172-186: the imports, the options, webdriver.Chrome(...).  A failure
\* is caught by the outer "except Exception" (lines 221-223).
CreateDriver ==
    /\ driver.pc = "start"
    /\ \E e \in {"none", "Exception"} :
         driver' = IF e = "none"
                   THEN [driver EXCEPT !.pc = "created", !.created = TRUE]
                   ELSE [driver EXCEPT !.pc = "left", !.path = "nodriver"]
    /\ UNCHANGED <<store, run, prog, pc, min_chars, batch_size, videos, i,
                   success_count, fail_count, method1_success, method2_success,
                   method_stats, mi, attempt, transcript, method, last, calls,
                   tried, pauses, snap, outcome, orun, sig, app, parsed, exit_code,
                   gen, limit, pool, listing>>

\* Lines 189-193: driver.get(url) and time.sleep(3), outside the bare except.
LoadPage ==
    /\ driver.pc = "created"
    /\ \E e \in Raised :
         driver' = IF e = "none"
                   THEN [driver EXCEPT !.pc = "loaded"]
                   ELSE [driver EXCEPT !.pc = "finally", !.path = "exception",
                                       !.pending = e]
    /\ UNCHANGED <<store, run, prog, pc, min_chars, batch_size, videos, i,
                   success_count, fail_count, method1_success, method2_success,
                   method_stats, mi, attempt, transcript, method, last, calls,
                   tried, pauses, snap, outcome, orun, sig, app, parsed, exit_code,
                   gen, limit, pool, listing>>

\* Lines 196-202: the wait for the "Show transcript" button, the click, the
\* sleep.  Whatever is raised is swallowed by "except: pass" (lines 213-214),
\* and "return None" follows.
ShowTranscript ==
    /\ driver.pc = "loaded"
    /\ \E e \in Raised :
         driver' = IF e = "none"
                   THEN [driver EXCEPT !.pc = "clicked"]
                   ELSE [driver EXCEPT !.pc = "finally", !.path = "nobutton"]
    /\ UNCHANGED <<store, run, prog, pc, min_chars, batch_size, videos, i,
                   success_count, fail_count, method1_success, method2_success,
                   method_stats, mi, attempt, transcript, method, last, calls,
                   tried, pauses, snap, outcome, orun, sig, app, parsed, exit_code,
                   gen, limit, pool, listing>>

\* Lines 205-211: find_elements, the joined text, "return text" when it has at
\* least 100 characters; otherwise, and when something is raised, line 216.
FindSegments ==
    /\ driver.pc = "clicked"
    /\ \E e \in Raised, n \in 0..MaxSegments :
       \E segs \in [1..n -> SegmentLens] :
         driver' = IF e = "none"
                   THEN [driver EXCEPT
                           !.pc = "finally",
                           !.segments = segs,
                           !.path = IF JoinedLen(segs) >= AdapterMin
                                    THEN "returned" ELSE "notfound",
                           !.result = IF JoinedLen(segs) >= AdapterMin
                                      THEN JoinedLen(segs) ELSE 0]
                   ELSE [driver EXCEPT !.pc = "finally", !.path = "exception"]
    /\ UNCHANGED <<store, run, prog, pc, min_chars, batch_size, videos, i,
                   success_count, fail_count, method1_success, method2_success,
                   method_stats, mi, attempt, transcript, method, last, calls,
                   tried, pauses, snap, outcome, orun, sig, app, parsed, exit_code,
                   gen, limit, pool, listing>>

\* Lines 218-223: the finally clause, then the way out: an Exception (from the
\* page load, or from quit itself) is caught by the outer except and None is
\* returned; a KeyboardInterrupt goes on to the caller.
LeaveCrawler ==
    /\ driver.pc = "finally"
    /\ \E e \in {"none", "Exception"} :
         LET d == driver_quit(driver)
             pending == IF e # "none" THEN e ELSE driver.pending
         IN
         driver' = [d EXCEPT !.pc = "left",
                             !.pending = pending,
                             !.result = IF pending = "none" THEN @ ELSE 0]
    /\ UNCHANGED <<store, run, prog, pc, min_chars, batch_size, videos, i,
                   success_count, fail_count, method1_success, method2_success,
                   method_stats, mi, attempt, transcript, method, last, calls,
                   tried, pauses, snap, outcome, orun, sig, app, parsed, exit_code,
                   gen, limit, pool, listing>>

InitCrawler ==
    /\ InitProgram
    /\ app = NoApp
    /\ parsed = NoParse
    /\ gen = NoGen
    /\ listing = NoSel
    /\ driver = [NoDriver EXCEPT !.pc = "start"]

NextCrawler ==
    \/ CreateDriver
    \/ LoadPage
    \/ ShowTranscript
    \/ FindSegments
    \/ LeaveCrawler

SpecCrawler == InitCrawler /\ [][NextCrawler]_vars

---------------------------------------------------------------------------
\* EmbeddingGenerator (src/processors/embeddings.py).

\* Texts handed to create_embedding: empty, blank, and with a letter.
Texts == Strings({"a", " "}, MaxText)

\* __init__ (lines 16-29): model, model_name, batch_size and dimension are set;
\* no attribute total_requests is.
EmbeddingGenerator ==
    [constructed |-> TRUE, has_total_requests |-> FALSE, total_requests |-> 0,
     calls |-> 0, text |-> <<>>, encoded |-> FALSE, result |-> "none"]

\* create_embedding (lines 170-199) on generator g.  encode_ok: self.model.encode
\* returns a vector rather than raising.  "self.total_requests += 1" reads the
\* attribute first: on a generator without it AttributeError is raised inside
\* the try and the except clause returns None.
create_embedding(g, text, encode_ok) ==
    LET blank    == text = <<>> \/ Strip(text) = <<>>
        encoded  == ~blank /\ encode_ok
        counted  == encoded /\ g.has_total_requests
    IN
    [g EXCEPT !.calls = @ + 1,
              !.text = text,
              !.encoded = encoded,
              !.total_requests = IF counted THEN @ + 1 ELSE @,
              !.result = IF counted THEN "vector" ELSE "none"]

Construct ==
    /\ gen' = EmbeddingGenerator
    /\ gen' # gen
    /\ UNCHANGED <<store, run, prog, pc, min_chars, batch_size, videos, i,
                   success_count, fail_count, method1_success, method2_success,
                   method_stats, mi, attempt, transcript, method, last, calls,
                   tried, pauses, snap, outcome, orun, sig, app, parsed, exit_code,
                   limit, pool, driver, listing>>

CreateEmbedding ==
    /\ gen.constructed
    /\ gen.calls < MaxCalls
    /\ \E text \in Texts, encode_ok \in BOOLEAN :
         gen' = create_embedding(gen, text, encode_ok)
    /\ UNCHANGED <<store, run, prog, pc, min_chars, batch_size, videos, i,
                   success_count, fail_count, method1_success, method2_success,
                   method_stats, mi, attempt, transcript, method, last, calls,
                   tried, pauses, snap, outcome, orun, sig, app, parsed, exit_code,
                   limit, pool, driver, listing>>

NextEmbedding ==
    \/ Construct
    \/ CreateEmbedding

SpecEmbedding == Init /\ [][NextEmbedding]_vars

---------------------------------------------------------------------------
\* Properties.

MethodNames == {Methods[k] : k \in 1..Len(Methods)}

\* C1: once an adapter call has returned an accepted transcript for a video, no
\* further adapter call (of a later adapter, or of the same one) is made for that
\* video in the run, in both orchestrators.
C1_NoCallAfterAccepted == [][last.accepted => calls' <= calls]_vars

\* Method 1 of TranscriptFetcherV2 has returned a manual-tier text, and
\* get_transcript has returned it.
C1_Witness ==
    /\ prog = "missing" /\ pc = "finish"
    /\ last.m = "method1" /\ last.accepted
    /\ transcript.tier = "manual" /\ calls = 1

\* C2 (as claimed): in AdvancedTranscriptFetcher.get_transcript, an adapter call
\* that returned nothing without raising is never followed by another call of the
\* same adapter: the next call, if any, is of the next adapter of the chain.
C2_NotFoundMovesOn ==
    [][(prog = "advanced" /\ last.kind = "notfound" /\ calls' > calls)
         => (\E k \in 1..(Len(Methods) - 1) :
               last.m = Methods[k] /\ last'.m = Methods[k + 1])]_vars

\* C3 (as claimed): a text rejected for being shorter than min_chars counts only
\* as "not found" for its adapter: in fetch_missing_transcripts a video is counted
\* as failed only after method 2 has been attempted for it.
C3_ShortTextFallsBack ==
    [][(prog = "missing" /\ pc = "finish" /\ fail_count' = fail_count + 1)
         => "method2" \in tried]_vars

\* C4: in a run of fetch_missing_transcripts every text passed to
\* update_video_transcript has length >= min_chars.
C4_ValidationFloor ==
    (prog = "missing" /\ outcome.kind \in {"saved", "dberror"})
        => outcome.text >= min_chars

\* Under the raised threshold a 200-character text was written, in a run in
\* which another video had been counted as failed.
C4_Witness ==
    /\ prog = "missing" /\ min_chars = 150
    /\ outcome.kind = "saved" /\ outcome.text = 200
    /\ fail_count > 0

\* C5: no commit replaces a video's stored transcript by a shorter text: the
\* length of each video's stored transcript never decreases.
C5_NoRegression == [][\A v \in Videos : store'[v] >= store[v]]_vars

\* A commit of fetch_missing_transcripts has replaced a stored text.
C5_Witness ==
    /\ prog = "missing" /\ outcome.kind = "saved"
    /\ outcome.prev > 0 /\ store[outcome.v] = outcome.text

\* C6 (as claimed): a commit on a video that already has a usable stored
\* transcript (non-empty, at least the run's minimum length) overwrites it only
\* if the new result's tier is strictly higher; otherwise the stored text is
\* unchanged and the commit is reported as skipped.
C6_CommitPolicy ==
    (orun.commit.v # 0 /\ orun.commit.usable
       /\ ~(TierRank(orun.commit.newTier) < TierRank(orun.commit.prevTier)))
        => (orun.commit.after = orun.commit.before /\ ~orun.commit.ok)

\* C7: a run of fetch_missing_transcripts with threshold min_chars never writes a
\* video whose stored transcript already has length >= min_chars, and such a
\* video is neither the candidate being worked on nor one still to come (at the
\* query: it is not selected at all).
C7_GoodTranscriptUntouched ==
    [][prog' = "missing"
         => \A v \in Videos :
              (store[v] > 0 /\ store[v] >= min_chars')
                => /\ store'[v] = store[v]
                   /\ \A k \in (i' + 1)..Len(videos') : videos'[k] # v]_vars

\* A second run has completed a video while another video, committed before
\* with a text of at least min_chars, is not among its candidates.
C7_Witness ==
    /\ prog = "missing" /\ run = 2 /\ outcome.kind # "none"
    /\ \E v \in Videos :
         /\ store[v] >= min_chars
         /\ \A k \in 1..Len(videos) : videos[k] # v

\* C8: when every adapter has failed for a video, fail_count has grown by exactly
\* 1 and success_count is unchanged since the video was started, the scheduler
\* makes no storage write, and the video still satisfies the candidate query.
C8_ExhaustedChain ==
    [][(pc = "finish" /\ ~Truthy(transcript))
         => /\ store' = store
            /\ fail_count' = snap.fail + 1
            /\ success_count' = snap.succ
            /\ IF prog = "missing"
               THEN IsCandidate(store'[videos[i + 1]], min_chars)
               ELSE IsCandidateAdvanced(store'[videos[i + 1]])]_vars

\* The chain was exhausted for a video whose stored text is too short, not missing.
C8_Witness ==
    /\ prog = "missing" /\ outcome.kind = "exhausted"
    /\ outcome.prev > 0 /\ fail_count = 1 /\ success_count = 0

\* The priority chain as the specification lists it.
ClaimedRank(m) ==
    CASE m = "Library" -> 1
      [] m = "TimedText API" -> 2
      [] m = "Internal API" -> 3
      [] m = "JSON Extract" -> 4

\* The priority chain of lines 312-318.
AmendedRank(m) ==
    CASE m = "Internal API" -> 1
      [] m = "TimedText API" -> 2
      [] m = "Library" -> 3
      [] m = "JSON Extract" -> 4

C10_PauseIffTransient ==
    (prog = "advanced" /\ pc = "attempt" /\ last.m # "none")
        => (last.slept <=> last.kind = "error")

MethodIndex(m) == CHOOSE k \in 1..Len(Methods) : Methods[k] = m

\* C11: for one video AdvancedTranscriptFetcher.get_transcript calls each adapter
\* at most max_retries times, the calls of one adapter are consecutive and an
\* earlier adapter is never called after a later one; at most 4 * max_retries
\* calls are made in all.
C11_BoundedRetry ==
    [][prog' = "advanced"
         => /\ last'.n <= max_retries
            /\ calls' <= 4 * max_retries
            /\ (calls' > calls /\ last.m # "none")
                 => MethodIndex(last'.m) >= MethodIndex(last.m)]_vars

\* The last adapter of the chain has been called for the third time, after three
\* calls of each adapter before it.
C11_Witness ==
    /\ prog = "advanced" /\ pc = "finish"
    /\ last.m = "JSON Extract" /\ last.n = 3 /\ calls = 12

\* C12: whatever happens to single candidates, a run does not abort: each step of
\* a run either makes one more adapter call for the current candidate (at most
\* 4 * max_retries of them) or completes the current candidate and moves to the
\* next one in the order of the query result, and the run ends only when every
\* candidate has been completed.
C12_ErrorsLocal ==
    [][pc # "idle"
         => /\ videos' = videos
            /\ \/ i' = i /\ calls' = calls + 1 /\ calls' <= 4 * max_retries
                  /\ pc' # "idle"
               \/ i' = i + 1 /\ outcome'.v = videos[i + 1] /\ outcome'.kind # "none"
            /\ pc' = "idle" => i' = Len(videos)]_vars

\* A run over two candidates has ended after a store error on its last candidate
\* and an exhausted chain on its first.
C12_Witness ==
    /\ pc = "idle" /\ Len(videos) = 2 /\ i = 2
    /\ outcome.kind = "dberror" /\ outcome.v = videos[2] /\ fail_count = 1

\* C13 (as claimed): a video whose commit fails with a store error is counted in
\* fail_count and not in success_count.
C13_StoreErrorCounted ==
    [][(pc = "finish" /\ outcome'.kind = "dberror")
         => (fail_count' = snap.fail + 1 /\ success_count' = snap.succ)]_vars

\* C14 (as claimed): a run of fetch_missing_transcripts over n candidates with
\* batch size b has paused floor((n - 1) / b) times when it ends, whatever the
\* outcomes of its candidates.
C14_PauseCount ==
    (prog = "missing" /\ pc = "idle" /\ Len(videos) > 0 /\ i = Len(videos))
        => pauses = (Len(videos) - 1) \div batch_size

\* C15 (as claimed): fetch_transcripts_advanced never pauses after the final
\* candidate of the run.
C15_NoPauseAfterLast ==
    [][(prog = "advanced" /\ pc = "finish" /\ i + 1 = Len(videos))
         => pauses' = pauses]_vars

\* C16 (as claimed): after an operator interrupt has been delivered to a run, no
\* new candidate is started and no new adapter attempt is begun: the run has
\* stopped, or is still at the candidate and the adapter call of the delivery.
C16_NoNewWork ==
    sig.delivered => (pc = "idle" \/ (i = sig.i /\ calls <= sig.at))

\* C17 (as claimed): every text an adapter returns as a transcript has at least
\* 100 characters, in TranscriptFetcherV2 as in AdvancedTranscriptFetcher.
C17_AdapterFloor == last.accepted => transcript.len >= 100

\* C18: the counters of a run start at 0 and are never negative; whenever the
\* run is between two candidates success_count + fail_count is the number of
\* candidates processed so far (one more once get_transcript has returned for
\* the current candidate), and at the end of the run it is the number of
\* candidates.
C18_RunStats ==
    /\ success_count >= 0
    /\ fail_count >= 0
    /\ pc \in {"method1", "method2", "attempt"} => success_count + fail_count = i
    /\ pc = "finish" => success_count + fail_count = i + 1
    /\ pc = "idle" => (i = Len(videos) /\ success_count + fail_count = Len(videos))

\* A run of fetch_missing_transcripts over two candidates has ended with one
\* success and one failure, its last candidate rejected as too short.
C18_Witness ==
    /\ prog = "missing" /\ pc = "idle" /\ Len(videos) = 2 /\ i = 2
    /\ success_count = 1 /\ fail_count = 1 /\ outcome.kind = "tooshort"

TranslatedTags == {"translated-" \o Languages[k] : k \in 1..Len(Languages)}

\* C19: a result of get_transcript_method1 is tagged 'manual' whenever a manual
\* track in en/en-US/en-GB exists (and only then), 'auto-generated' only if no
\* such manual track exists and a generated one does, and 'translated-<lang>'
\* only if neither exists.
C19_SubTier ==
    (app.stage = "returned" /\ app.len > 0)
        => /\ app.manual <=> app.tag = "manual"
           /\ app.tag = "auto-generated" => (~app.manual /\ app.generated)
           /\ app.tag \in TranslatedTags => (~app.manual /\ ~app.generated)
           /\ app.tag \in {"manual", "auto-generated"} \cup TranslatedTags

\* A video with a manual and a generated English track and a translatable
\* Vietnamese one has been answered from the manual track.
C19_Witness ==
    /\ app.stage = "returned" /\ app.len > 0 /\ app.tag = "manual"
    /\ app.manual /\ app.generated /\ app.langs[1] = "translatable"

\* C20: when get_transcript_method1 returns a translated text, the language in
\* its tag is the first of vi, es, fr, de, ja, ko, zh, hi, ar that has a track
\* translate('en') accepts, and find_transcript was called for the languages up
\* to that one only; a video with only a Vietnamese track is tagged
\* 'translated-vi'.
C20_FirstMatch ==
    (app.stage = "returned" /\ app.len > 0)
        => /\ \A k \in 1..Len(Languages) :
                app.tag = "translated-" \o Languages[k]
                    => /\ app.langs[k] = "translatable"
                       /\ \A j \in 1..(k - 1) : app.langs[j] # "translatable"
                       /\ app.queried = SubSeq(Languages, 1, k)
           /\ (/\ ~app.manual /\ ~app.generated
               /\ app.langs[1] = "translatable"
               /\ \A j \in 2..Len(Languages) : app.langs[j] = "absent")
                  => (app.tag = "translated-vi" /\ app.queried = <<"vi">>)

\* A video whose Vietnamese track cannot be translated, with no Spanish track and
\* translatable French and Korean tracks, has been answered from the French one.
C20_Witness ==
    /\ app.stage = "returned" /\ app.len > 0 /\ app.tag = "translated-fr"
    /\ app.langs[1] = "untranslatable" /\ app.langs[2] = "absent"
    /\ app.langs[6] = "translatable"

C24_XmlNormalized ==
    (parsed.done /\ parsed.fn = "xml" /\ WellFormed(parsed.payload))
        => LET t == parsed.text IN
           /\ \A k \in 1..(Len(t) - 1) :
                ~(t[k] \in Whitespace /\ t[k + 1] \in Whitespace)
           /\ t # <<>> => (t[1] \notin Whitespace /\ t[Len(t)] \notin Whitespace)

\* The lines the claim keeps: not empty, without a time-range marker, not a
\* sequence number, not a format header, not made of tags only.
ClaimedLine(line) ==
    /\ line # <<>>
    /\ \A k \in 1..Len(line) : line[k] # "-->"
    /\ ~(\A k \in 1..Len(line) : line[k] = "7")
    /\ Head(line) # "WEBVTT"
    /\ ~(\A k \in 1..Len(line) : line[k] \in {"<c>", " "})

\* C25 (as claimed): the output of _parse_subtitle_text is made of exactly the
\* input lines that are not empty, not timestamp lines, not sequence numbers, not
\* format headers and not markup-only lines, in input order, joined by single
\* spaces: no other line is discarded.
C25_SubtitleLines ==
    (parsed.done /\ parsed.fn = "subtitle")
        => LET lines == SplitLines(parsed.payload)
               stripped == [k \in 1..Len(lines) |-> Strip(lines[k])]
           IN parsed.text = Collapse(JoinSpace(SelectSeq(stripped, ClaimedLine)))

\* A string of at least 100 characters under one of the five keys, within the
\* depth cap.
RECURSIVE Qualifying(_, _)
Qualifying(obj, depth) ==
    /\ depth <= max_depth
    /\ \E j \in 1..Len(obj.items) :
         \/ /\ obj.t = "dict"
            /\ \E k \in 1..Len(TranscriptKeys) : obj.items[j].key = TranscriptKeys[k]
            /\ obj.items[j].val.t = "str"
            /\ obj.items[j].val.len >= 100
         \/ Qualifying(obj.items[j].val, depth + 1)

\* C26 (as claimed): whenever the JSON value holds, within the depth cap, a string
\* of at least 100 characters (exactly 100 included) under one of the keys
\* transcript / captions / subtitles / text / content, _find_transcript_in_json
\* returns such a string and not None.
C26_JsonComplete ==
    (parsed.done /\ parsed.fn = "json" /\ Qualifying(parsed.payload, 0))
        => (~parsed.none /\ parsed.text[1].len >= 100)

\* C23 (as claimed): when the payload an adapter fetched is valid XML without any
\* text, _parse_xml_transcript returns the empty text, nothing is accepted from
\* the call, and the next call the orchestrator makes is of the next adapter of
\* the chain.
C23_NoTextMovesOn ==
    [][(prog = "advanced" /\ parsed.fn = "xml" /\ parsed.done)
         => /\ ~parsed.none /\ parsed.text = <<>>
            /\ ~last.accepted /\ transcript = NoText
            /\ calls' > calls
                 => (\E k \in 1..(Len(Methods) - 1) :
                       last.m = Methods[k] /\ last'.m = Methods[k + 1])]_vars

\* The run of fetch_missing_transcripts came to its "return True": no candidate,
\* or every candidate processed and the closing statistics printed.
RunCompleted ==
    /\ exit_code.how # "nolibs"
    /\ i = Len(videos)
    /\ videos # <<>> => ~StatsRaise(store)

\* C27: when fetch_missing_transcripts is over, main returns 0 exactly when the
\* run completed (no candidate included); without a retrieval library it returns
\* non-zero and the step neither loads a candidate nor changes the store; an
\* exception or an interrupt that escapes the run gives non-zero.
C27_ExitCode ==
    [][/\ (prog' = "missing" /\ pc' = "idle")
            => /\ exit_code'.how # "none"
               /\ exit_code'.code = 0 <=> RunCompleted'
               /\ exit_code'.how \in {"interrupt", "exception", "nolibs"}
                    => exit_code'.code # 0
       /\ (run' # run /\ exit_code'.how = "nolibs")
            => store' = store /\ videos' = <<>> /\ calls' = 0]_vars

C27_Witness ==
    /\ prog = "missing"
    /\ pc = "idle"
    /\ videos # <<>>
    /\ i = Len(videos)
    /\ exit_code = main("exception")

\* sum(method_stats.values())
RECURSIVE SumStats(_, _)
SumStats(f, k) == IF k = 0 THEN 0 ELSE f[Methods[k]] + SumStats(f, k - 1)

\* C29 (as claimed): at the end of every run the per-method counts add up to the
\* success count: method1_success + method2_success = success_count in
\* fetch_missing_transcripts, whatever min_chars is, and the sum of method_stats
\* = success_count in fetch_transcripts_advanced.
C29_AttributionSums ==
    (pc = "idle" /\ run > 0)
        => /\ prog = "missing" => method1_success + method2_success = success_count
           /\ prog = "advanced" => SumStats(method_stats, Len(Methods)) = success_count

\* update_video_transcript was called in the step: the loop body came to its
\* "if fetcher.update_video_transcript(video_id, transcript)".
UpdateCalled == pc = "finish" /\ outcome'.kind \in {"saved", "dberror", "aborted"}

\* C30: within one run update_video_transcript is called at most once per
\* candidate (once in the body of a candidate that occurs once in the list), only
\* for the candidate whose acquisition has just succeeded, with exactly the text
\* get_transcript returned for it, and no step writes any other row of the store.
C30_CommitOnce ==
    [][/\ store' # store => UpdateCalled /\ outcome'.kind = "saved"
       /\ UpdateCalled
            => /\ outcome'.v = videos[i + 1]
               /\ \A k \in 1..i : videos[k] # videos[i + 1]
               /\ i' = i + 1
               /\ last.accepted /\ Truthy(transcript)
               /\ outcome'.text = transcript.len
               /\ outcome'.kind = "saved" => store'[outcome'.v] = transcript.len
               /\ \A u \in Videos \ {outcome'.v} : store'[u] = store[u]]_vars

C30_Witness ==
    /\ outcome.kind = "saved"
    /\ outcome.prev # outcome.text
    /\ store[outcome.v] = outcome.text
    /\ \E u \in Videos \ {outcome.v} : store[u] # outcome.text

\* C28 (as claimed): create_embedding returns a vector whenever the text is not
\* blank and the model's encode succeeded, on a generator just constructed as
\* after any number of earlier calls.
C28_VectorReturned ==
    (gen.calls > 0 /\ Strip(gen.text) # <<>> /\ gen.encoded) => gen.result = "vector"

\* The candidates invocation k still has to work through.
Remaining(k) ==
    IF orun.r[k].pc # "loop" THEN {}
    ELSE {orun.r[k].videos[j] : j \in (orun.r[k].i + 1)..Len(orun.r[k].videos)}

\* Invocation k stores a transcript for video v in the step.
Commits(k, v) ==
    /\ orun.r[k].pc = "loop"
    /\ orun.r[k].videos[orun.r[k].i + 1] = v
    /\ orun'.r[k].i = orun.r[k].i + 1
    /\ orun'.commit.v = v
    /\ orun'.commit.ok

\* C31 (as claimed): of two overlapping invocations of fetch_missing_transcripts
\* a candidate is claimed by one: no video is pending in both at the same time,
\* and no invocation stores a transcript over one that the other invocation
\* stored after this one had selected the video (the stored text is usable by
\* this invocation's own threshold, so it was not there at the query).
C31_OneWorker ==
    [][/\ Remaining(1)' \cap Remaining(2)' = {}
       /\ \A k \in Runs, v \in Videos :
            Commits(k, v) => (orun.by[v] \in {0, k} \/ ~orun'.commit.usable)]_vars

\* s is the value of one of the five keys in a dict of obj that lies at a depth
\* the search looks at (obj itself being at depth).
RECURSIVE Keyed(_, _, _)
Keyed(obj, depth, s) ==
    /\ depth <= max_depth
    /\ \E j \in 1..Len(obj.items) :
         \/ /\ obj.t = "dict"
            /\ \E k \in 1..Len(TranscriptKeys) : obj.items[j].key = TranscriptKeys[k]
            /\ obj.items[j].val = s
         \/ Keyed(obj.items[j].val, depth + 1, s)

\* obj holds, at whatever depth, a string of more than 100 characters under one
\* of the five keys.
RECURSIVE HasLongKeyed(_)
HasLongKeyed(obj) ==
    \E j \in 1..Len(obj.items) :
       \/ /\ obj.t = "dict"
          /\ \E k \in 1..Len(TranscriptKeys) : obj.items[j].key = TranscriptKeys[k]
          /\ obj.items[j].val.t = "str"
          /\ obj.items[j].val.len > 100
       \/ HasLongKeyed(obj.items[j].val)

\* C34: every result of _find_transcript_in_json other than None is a string of
\* more than 100 characters that is the value of one of the keys transcript /
\* captions / subtitles / text / content in a dict at depth <= 10 below the root
\* (so a string found only deeper is never returned); the search ends on every
\* value.
C34_JsonSound ==
    (parsed.fn = "json" /\ parsed.done /\ ~parsed.none)
        => /\ Len(parsed.text) = 1
           /\ parsed.text[1].t = "str"
           /\ parsed.text[1].len > 100
           /\ Keyed(parsed.payload, 0, parsed.text[1])

\* The search has ended with None on a value whose only long string under a
\* transcript key lies deeper than the cap.
C34_Witness ==
    /\ parsed.fn = "json" /\ parsed.done /\ parsed.none
    /\ HasLongKeyed(parsed.payload)

\* C32 (as claimed): when a limit L >= 0 is given, 0 included, the run selects
\* and processes at most L candidates.
C32_CandidateCap ==
    limit.given => (Len(videos) <= limit.n /\ i <= limit.n)

\* C36: in main of either command, once initialize_pool has been attempted,
\* close_all_connections is called exactly once by the time main is left (the
\* run completed, failed at setup, raised, or was interrupted), and not before.
C36_ConnectionsClosed ==
    /\ run > 0 => pool.attempted
    /\ pool.attempted
         => /\ exit_code.how # "none" => pool.closed = 1
            /\ exit_code.how = "none" => (pool.closed = 0 /\ pc # "idle")
            /\ pc = "idle" => pool.closed = 1

\* main has been left by an interrupt, and has closed the connections.
C36_Witness ==
    /\ pool.attempted
    /\ pool.closed = 1
    /\ exit_code = main("interrupt")
    /\ i < Len(videos)

\* The English tracks of the listing under study that are manual / generated.
ManualEnglish ==
    {k \in 1..Len(listing.tracks) :
        IsEnglish(listing.adapter, listing.tracks[k])
        /\ IsManual(listing.adapter, listing.tracks[k])}

AutoEnglish ==
    {k \in 1..Len(listing.tracks) :
        IsEnglish(listing.adapter, listing.tracks[k])
        /\ ~IsManual(listing.adapter, listing.tracks[k])}

\* C33: in the embedded-page and the timed-text adapter, when the listing has a
\* manual English track the track whose payload is fetched is a manual English
\* one (and one is fetched when every track has its URL); a generated English
\* track is fetched only when the listing has no manual English track; without
\* any English track nothing is fetched.
C33_TrackPreference ==
    listing.done
        => /\ listing.fetched \in ManualEnglish \cup AutoEnglish \cup {0}
           /\ (ManualEnglish # {} /\ listing.fetched # 0)
                => listing.fetched \in ManualEnglish
           /\ (ManualEnglish # {} /\ \A k \in 1..Len(listing.tracks) :
                                        listing.tracks[k].baseUrl)
                => listing.fetched \in ManualEnglish
           /\ listing.fetched \in AutoEnglish => ManualEnglish = {}
           /\ (ManualEnglish \cup AutoEnglish = {}) => listing.fetched = 0

\* A listing with a generated English track ahead of a manual one: the manual
\* one has been fetched.
C33_Witness ==
    /\ listing.done
    /\ listing.fetched \in ManualEnglish
    /\ \E k \in AutoEnglish : k < listing.fetched

\* C35: in method4_selenium_crawler the driver, once created, has been quit
\* exactly once when the call is left, whichever way the page interaction went
\* (text returned, no transcript found, button missing, exception), and is not
\* quit before that; without a driver nothing is quit.
C35_DriverQuitOnce ==
    /\ driver.quits <= 1
    /\ driver.quits = 1 => driver.created
    /\ (driver.pc = "left" /\ driver.created)
         => /\ driver.path \in {"returned", "notfound", "nobutton", "exception"}
            /\ driver.quits = 1
    /\ driver.pc \in {"start", "created", "loaded", "clicked", "finally"}
         => driver.quits = 0

\* driver.get was interrupted by the operator: the driver has been quit and the
\* interrupt is on its way to the caller.
C35_Witness ==
    /\ driver.pc = "left"
    /\ driver.created
    /\ driver.path = "exception"
    /\ driver.pending = "KeyboardInterrupt"
    /\ driver.quits = 1

====
